---- MODULE Spec2Model ----
(***************************************************************************)
(* State-machine model of the userscript c1s_full_trip_info.user.js:       *)
(* the readiness watcher, the paginated fetch loop, the multi-key index,   *)
(* the row reconciler and the mutation-driven re-reconciliation.           *)
(*                                                                         *)
(* Strings are sequences of one-character strings, so that trimming and    *)
(* the truthiness test of a key (the empty string is falsy) are computed.  *)
(* An index entry is the position of the record in the item sequence: the  *)
(* JavaScript map holds references, and two records with equal fields are  *)
(* still two objects.                                                      *)
(***************************************************************************)
EXTENDS Integers, Sequences, FiniteSets, TLC

\* const LIMIT = 50
LIMIT == 50

\* Bounds of the model.
MaxPages == 3
MaxRows == 2
MaxLen == 3

(***************************************************************************)
(* Records of the API                                                      *)
(***************************************************************************)

NoStr == <<>>

\* A record as the code reads it: the three identifiers and the four money
\* fields.  Amount kinds: "null" (absent), "num" (a number), "str" (any
\* other JSON value, which has no toFixed).  Currency kinds: "" (absent),
\* "USD" (well formed), "bad" (not a well-formed currency code).  createdAt
\* is the record's rank in the server's descending order.
Rec(t, i, o, oa, oc, ca, cc, at) ==
    [tripId |-> t, id |-> i, orderId |-> o,
     orderAmount |-> oa, orderCurrency |-> oc,
     creditAmount |-> ca, creditCurrency |-> cc, createdAt |-> at]

\* The server's data set, by position (1 = newest).  Four shapes repeat:
\* a plain record; a record whose order amount is not a number and whose
\* currency code is malformed; a record without tripId; a second order of
\* trip "a" that shares its orderId with the third shape.
ServerItem(p) ==
    CASE p % 4 = 1 -> Rec(<<"a">>, <<"1">>, <<"x">>, "num", "USD", "num", "", p)
      [] p % 4 = 2 -> Rec(<<"b">>, <<"2">>, <<"a">>, "str", "bad", "null", "", p)
      [] p % 4 = 3 -> Rec(NoStr, <<"3">>, <<"y">>, "null", "", "num", "bad", p)
      [] OTHER     -> Rec(<<"a">>, <<"4">>, <<"y">>, "num", "", "null", "USD", p)

\* The items of the response to limit=LIMIT&offset=off that carries len items.
ServerPage(off, len) == [i \in 1..len |-> ServerItem(off + i)]

\* Item counts a parsed body may carry: short pages, a full page, and a
\* server that ignores the limit.
ShortLens == {0, 23}
FullLens == {LIMIT, LIMIT + 1}

(***************************************************************************)
(* buildTripMap                                                            *)
(***************************************************************************)

\* A variant of Truthy that takes every identifier, the empty one too.
Truthy_Always(s) == TRUE

Truthy(s) == s # NoStr

\* map[k] = v
MapSet(map, k, v) == (k :> v) @@ map

\* !map[k]
MapEmptyAt(map, k) == k \notin DOMAIN map

\* A variant of PutTripId that fills the slot only when it is empty.
PutTripId_IfEmpty(map, it, pos) ==
    IF Truthy(it.tripId) /\ MapEmptyAt(map, it.tripId)
    THEN MapSet(map, it.tripId, pos) ELSE map

\* if (it.tripId) map[it.tripId] = it;
PutTripId(map, it, pos) ==
    IF Truthy(it.tripId) THEN MapSet(map, it.tripId, pos) ELSE map

\* A variant of PutId without the test of the slot.
PutId_Overwrite(map, it, pos) ==
    IF Truthy(it.id) THEN MapSet(map, it.id, pos) ELSE map

\* if (it.id && !map[it.id]) map[it.id] = it;
PutId(map, it, pos) ==
    IF Truthy(it.id) /\ MapEmptyAt(map, it.id) THEN MapSet(map, it.id, pos) ELSE map

\* A variant of PutOrderId without the test of the slot.
PutOrderId_Overwrite(map, it, pos) ==
    IF Truthy(it.orderId) THEN MapSet(map, it.orderId, pos) ELSE map

\* if (it.orderId && !map[it.orderId]) map[it.orderId] = it;
PutOrderId(map, it, pos) ==
    IF Truthy(it.orderId) /\ MapEmptyAt(map, it.orderId)
    THEN MapSet(map, it.orderId, pos) ELSE map

\* One iteration of the for-of loop.
IndexStep(map, it, pos) == PutOrderId(PutId(PutTripId(map, it, pos), it, pos), it, pos)

EmptyMap == <<>>

\* for (const it of items): the iterations lo..hi in order, starting
\* from map.  The range is split in two, and the map after the first half
\* is computed (its domain is inspected) before the second half starts, so
\* that the depth of evaluation grows with the logarithm of the length; the
\* steps and their order are those of the loop.
RECURSIVE BuildRange(_, _, _, _)
BuildRange(items, lo, hi, map) ==
    IF lo > hi THEN map
    ELSE IF lo = hi THEN IndexStep(map, items[lo], lo)
    ELSE LET mid  == (lo + hi) \div 2
             half == BuildRange(items, lo, mid, map)
         IN IF DOMAIN half = {}
            THEN BuildRange(items, mid + 1, hi, EmptyMap)
            ELSE BuildRange(items, mid + 1, hi, half)

buildTripMap(items) == BuildRange(items, 1, Len(items), EmptyMap)

(***************************************************************************)
(* formatMoney and the decoration of one row                               *)
(***************************************************************************)

\* typeof Intl !== 'undefined' && Intl.NumberFormat: true in every browser
\* that runs userscripts.
IntlAvailable == TRUE

\* The result is [threw, text]; text is a symbolic rendering.
formatMoney(amount, currency) ==
    IF amount = "null" THEN [threw |-> FALSE, text |-> <<"dash">>]
    ELSE IF IntlAvailable /\ currency # "bad"
    THEN [threw |-> FALSE,
          text |-> <<"intl", IF currency # "" THEN currency ELSE "USD", amount>>]
    ELSE IF amount = "num"
    THEN [threw |-> FALSE, text |-> <<"plain", currency, amount>>]
    ELSE [threw |-> TRUE, text |-> <<>>]

\* String.prototype.trim on a sequence of characters.
RECURSIVE TrimLeft(_)
TrimLeft(s) == IF s # <<>> /\ Head(s) = " " THEN TrimLeft(Tail(s)) ELSE s

RECURSIVE TrimRight(_)
TrimRight(s) ==
    IF s # <<>> /\ s[Len(s)] = " " THEN TrimRight(SubSeq(s, 1, Len(s) - 1)) ELSE s

Trim(s) == TrimRight(TrimLeft(s))

\* A row of the host list: whether it has a .trip-number-content element,
\* that element's text, the data-c1s-enhanced mark and the .c1s-extra-info
\* blocks appended to it.
Row(hasId, text) == [hasId |-> hasId, text |-> text, enhanced |-> FALSE, extras |-> <<>>]

RowKinds ==
    { Row(TRUE, <<" ", "a", " ">>), Row(TRUE, <<"b">>), Row(TRUE, <<"z">>),
      Row(FALSE, <<>>) }

\* A variant of DecorateRow without the guard on a missing index entry:
\* the row is marked and the first read of a field of info throws.
DecorateRow_NoMissGuard(row, map, items) ==
    IF row.enhanced THEN [row |-> row, out |-> "skip"]
    ELSE IF ~row.hasId THEN [row |-> row, out |-> "skip"]
    ELSE LET key == Trim(row.text) IN
         IF MapEmptyAt(map, key)
         THEN [row |-> [row EXCEPT !.enhanced = TRUE], out |-> "throw"]
         ELSE LET info     == items[map[key]]
                  marked   == [row EXCEPT !.enhanced = TRUE]
                  orderAmt == formatMoney(info.orderAmount, info.orderCurrency)
                  creditAmt == formatMoney(info.creditAmount, info.creditCurrency)
              IN IF orderAmt.threw \/ creditAmt.threw
                 THEN [row |-> marked, out |-> "throw"]
                 ELSE [row |-> [marked EXCEPT !.extras =
                                   Append(@, [info |-> map[key],
                                              orderAmt |-> orderAmt.text,
                                              creditAmt |-> creditAmt.text])],
                       out |-> "done"]

\* The forEach callback on one row: "skip" (already enhanced, no id
\* element, or no index entry), "done" (marked and decorated) or "throw"
\* (marked, then formatMoney threw before the block was appended).
DecorateRow(row, map, items) ==
    IF row.enhanced THEN [row |-> row, out |-> "skip"]
    ELSE IF ~row.hasId THEN [row |-> row, out |-> "skip"]
    ELSE LET key == Trim(row.text) IN
         IF MapEmptyAt(map, key) THEN [row |-> row, out |-> "skip"]
         ELSE LET info     == items[map[key]]
                  marked   == [row EXCEPT !.enhanced = TRUE]
                  orderAmt == formatMoney(info.orderAmount, info.orderCurrency)
                  creditAmt == formatMoney(info.creditAmount, info.creditCurrency)
              IN IF orderAmt.threw \/ creditAmt.threw
                 THEN [row |-> marked, out |-> "throw"]
                 ELSE [row |-> [marked EXCEPT !.extras =
                                   Append(@, [info |-> map[key],
                                              orderAmt |-> orderAmt.text,
                                              creditAmt |-> creditAmt.text])],
                       out |-> "done"]

Least(S) == CHOOSE x \in S : \A y \in S : x <= y

\* rows.forEach(...): the callback runs on the rows in document order
\* until one call throws; what it does to a row depends on that row alone.
\* The result carries the rows after the pass, whether an exception left
\* the loop, how many rows the callback was called on and how many blocks
\* were appended.
decorateRows(rs, map, items) ==
    LET res      == [i \in 1..Len(rs) |-> DecorateRow(rs[i], map, items)]
        throwers == {i \in 1..Len(rs) : res[i].out = "throw"}
        stop     == IF throwers = {} THEN Len(rs) ELSE Least(throwers)
    IN [rows     |-> [i \in 1..Len(rs) |-> IF i <= stop THEN res[i].row ELSE rs[i]],
        threw    |-> throwers # {},
        visited  |-> stop,
        attached |-> Cardinality({i \in 1..stop : res[i].out = "done"})]

(***************************************************************************)
(* State                                                                   *)
(***************************************************************************)

VARIABLES
    pc,           \* position of main: "init", "waiting", "fetching" (a request
                  \* is awaited), "parsing" (resp.json() is awaited), "active"
                  \* (enhancement active), "failed" (main's catch ran),
                  \* and "input"/"built" in the index-only specification
    container,    \* the list container exists in the document
    rows,         \* the .trip-row-body rows, in document order
    hostChanged,  \* the host added a row since the last reconciliation pass
    bodyObs,      \* readiness observer: "none", "observing", "disconnected"
    bodyPending,  \* mutation records are queued for the readiness observer
    readyCalls,   \* number of times the readiness promise was given a value
    offset,       \* let offset
    allItems,     \* const allItems
    requests,     \* number of fetch() calls issued
    outstanding,  \* number of fetch() calls whose response has not arrived
    got,          \* history: offset and item count of every parsed page, and
                  \* whether the body had no items field
    asked,        \* history: the offset in the URL of every request issued
    fetchCalls,   \* history: number of calls of fetchAllTrips
    fetchEnd,     \* why the loop was left: "none", "short", "transport",
                  \* "http", "parse"
    tripMap,      \* const tripMap
    indexBuilt,   \* buildTripMap has returned
    buildCalls,   \* history: number of calls of buildTripMap
    exportBtn,    \* the export button is in the document
    listObs,      \* the observer on the container is registered
    listPending,  \* mutation records are queued for the container observer
    lastPass,     \* history: the last reconciliation pass
    exported      \* history: whether the export button was clicked, and the
                  \* text the last click serialized

vars == <<pc, container, rows, hostChanged, bodyObs, bodyPending, readyCalls,
          offset, allItems, requests, outstanding, got, asked, fetchCalls, fetchEnd,
          tripMap, indexBuilt, buildCalls, exportBtn, listObs, listPending, lastPass,
          exported>>

domVars == <<container, rows, hostChanged>>
readyVars == <<bodyObs, bodyPending, readyCalls>>
fetchVars == <<offset, allItems, requests, outstanding, got, asked, fetchCalls,
               fetchEnd>>
mainVars == <<tripMap, indexBuilt, buildCalls, exportBtn, listObs, listPending,
              lastPass, exported>>

\* No click on the export button yet.
NoExport == [clicked |-> FALSE, text |-> <<>>]

NoPass == [kind |-> "none", again |-> FALSE, before |-> <<>>, threw |-> FALSE,
           visited |-> 0, attached |-> 0]

Init ==
    /\ pc = "init"
    /\ container = FALSE
    /\ rows = <<>>
    /\ hostChanged = FALSE
    /\ bodyObs = "none"
    /\ bodyPending = FALSE
    /\ readyCalls = 0
    /\ offset = 0
    /\ allItems = <<>>
    /\ requests = 0
    /\ outstanding = 0
    /\ got = <<>>
    /\ asked = <<>>
    /\ fetchCalls = 0
    /\ fetchEnd = "none"
    /\ tripMap = EmptyMap
    /\ indexBuilt = FALSE
    /\ buildCalls = 0
    /\ exportBtn = FALSE
    /\ listObs = FALSE
    /\ listPending = FALSE
    /\ lastPass = NoPass
    /\ exported = NoExport

(***************************************************************************)
(* The host page                                                           *)
(***************************************************************************)

\* A childList mutation under document.body queues a record for the
\* readiness observer while it observes.
NotifyBody == bodyPending' = (bodyPending \/ bodyObs = "observing")

\* A childList mutation under the container queues a record for the
\* container observer once it is registered.
NotifyList == listPending' = (listPending \/ listObs)

\* The host inserts the list container.
HostAddContainer ==
    /\ ~container
    /\ container' = TRUE
    /\ NotifyBody
    /\ UNCHANGED <<pc, rows, hostChanged, bodyObs, readyCalls, fetchVars, mainVars>>

\* The host changes the document outside the list container.
HostMutateBody ==
    /\ NotifyBody
    /\ UNCHANGED <<pc, domVars, bodyObs, readyCalls, fetchVars, mainVars>>

\* The host appends a row to the list ("View More Shopping Trips"), which
\* holds fewer than max rows.
HostAddRowUpTo(max) ==
    /\ container
    /\ Len(rows) < max
    /\ \E r \in RowKinds : rows' = Append(rows, r)
    /\ hostChanged' = TRUE
    /\ NotifyBody
    /\ NotifyList
    /\ UNCHANGED <<pc, container, bodyObs, readyCalls, fetchVars,
                   tripMap, indexBuilt, buildCalls, exportBtn, listObs, lastPass,
                   exported>>

HostAddRow == HostAddRowUpTo(MaxRows)

\* The host changes the container's subtree without adding a row.
HostMutateList ==
    /\ container
    /\ NotifyBody
    /\ NotifyList
    /\ UNCHANGED <<pc, domVars, bodyObs, readyCalls, fetchVars,
                   tripMap, indexBuilt, buildCalls, exportBtn, listObs, lastPass,
                   exported>>

(***************************************************************************)
(* fetchAllTrips                                                           *)
(***************************************************************************)

\* fetch(url, ...): the URL carries the offset of this iteration.
IssueRequest ==
    /\ requests' = requests + 1
    /\ asked' = Append(asked, offset')
    /\ outstanding' = outstanding + 1
    /\ pc' = "fetching"

\* A variant of BeginFetch in which the container observer is registered
\* before the fetch is awaited.
BeginFetch_ObserveFirst ==
    /\ allItems' = <<>>
    /\ offset' = 0
    /\ IssueRequest
    /\ fetchCalls' = fetchCalls + 1
    /\ listObs' = TRUE
    /\ UNCHANGED <<got, fetchEnd, rows, hostChanged, tripMap, indexBuilt,
                   buildCalls, exportBtn, listPending, lastPass, exported>>

\* main passes its first await and calls fetchAllTrips, which runs up to
\* its first await.
BeginFetch ==
    /\ allItems' = <<>>
    /\ offset' = 0
    /\ IssueRequest
    /\ fetchCalls' = fetchCalls + 1
    /\ UNCHANGED <<got, fetchEnd, rows, hostChanged, mainVars>>

\* A variant of ItemsOf whose default is not empty.
ItemsOf_Default(data) == IF data.hasItems THEN data.items ELSE <<ServerItem(1)>>

\* data.items || []
ItemsOf(data) == IF data.hasItems THEN data.items ELSE <<>>

\* The entry of the history got for the body parsed at offset off.
PageRecord(off, data) ==
    [offset |-> off, len |-> Len(ItemsOf(data)), missing |-> ~data.hasItems]

\* A variant of PushItems that puts the new page in front.
PushItems_Prepend(acc, items) == items \o acc

\* allItems.push(...items)
PushItems(acc, items) == acc \o items

\* A variant of LastPage that also stops on a page of exactly LIMIT items.
LastPage_AtMost(items) == Len(items) <= LIMIT

\* if (items.length < LIMIT) break;
LastPage(items) == Len(items) < LIMIT

\* The bodies a successful response to the request at offset off may parse
\* to; a page with more than LIMIT items is drawn for the first request.
Bodies(off) ==
    {[hasItems |-> FALSE, items |-> <<>>]}
    \cup {[hasItems |-> TRUE, items |-> ServerPage(off, n)] :
              n \in ShortLens \cup (IF off = 0 THEN FullLens ELSE {LIMIT})}

(***************************************************************************)
(* main after the fetch                                                    *)
(***************************************************************************)

\* One call of decorateRows, recorded in lastPass.
PassRecord(kind, r) ==
    [kind |-> kind, again |-> (lastPass.kind # "none" /\ ~hostChanged),
     before |-> rows, threw |-> r.threw, visited |-> r.visited,
     attached |-> r.attached]

\* fetchAllTrips returned items: buildTripMap, decorateRows, addExportButton
\* and the registration of the container observer run in one task; an
\* exception of decorateRows is caught by main's catch and ends main.
FinishMain(items) ==
    LET map == buildTripMap(items)
        r   == decorateRows(rows, map, items)
    IN /\ tripMap' = map
       /\ indexBuilt' = TRUE
       /\ buildCalls' = buildCalls + 1
       /\ exported' = exported
       /\ rows' = r.rows
       /\ hostChanged' = FALSE
       /\ lastPass' = PassRecord("initial", r)
       /\ exportBtn' = ~r.threw
       /\ listObs' = ~r.threw
       /\ listPending' = FALSE
       /\ pc' = IF r.threw THEN "failed" ELSE "active"

\* catch (e) of fetch(): break, return allItems.
FetchRejected ==
    /\ pc = "fetching"
    /\ outstanding' = outstanding - 1
    /\ fetchEnd' = "transport"
    /\ FinishMain(allItems)
    /\ UNCHANGED <<container, readyVars, offset, allItems, requests, got, asked,
                   fetchCalls>>

\* if (!resp.ok): break, return allItems.
RespNotOk ==
    /\ pc = "fetching"
    /\ outstanding' = outstanding - 1
    /\ fetchEnd' = "http"
    /\ FinishMain(allItems)
    /\ UNCHANGED <<container, readyVars, offset, allItems, requests, got, asked,
                   fetchCalls>>

\* A variant of RespOk that issues the next request before the body is
\* parsed.
RespOk_Prefetch ==
    /\ pc = "fetching"
    /\ requests' = requests + 1
    /\ asked' = Append(asked, offset + LIMIT)
    /\ pc' = "parsing"
    /\ UNCHANGED <<domVars, readyVars, offset, allItems, outstanding, got, fetchCalls,
                   fetchEnd, mainVars>>

\* resp.ok: resp.json() is awaited.
RespOk ==
    /\ pc = "fetching"
    /\ outstanding' = outstanding - 1
    /\ pc' = "parsing"
    /\ UNCHANGED <<domVars, readyVars, offset, allItems, requests, got, asked,
                   fetchCalls, fetchEnd, mainVars>>

\* resp.json() rejects: the exception leaves fetchAllTrips and is caught by
\* main's catch.
JsonRejected ==
    /\ pc = "parsing"
    /\ fetchEnd' = "parse"
    /\ pc' = "failed"
    /\ UNCHANGED <<domVars, readyVars, offset, allItems, requests, outstanding, got,
                   asked, fetchCalls, mainVars>>

\* resp.json() resolves with a short page: push, break, return allItems.
JsonParsedLast ==
    /\ pc = "parsing"
    /\ \E data \in Bodies(offset) :
         /\ LastPage(ItemsOf(data))
         /\ allItems' = PushItems(allItems, ItemsOf(data))
         /\ got' = Append(got, PageRecord(offset, data))
    /\ fetchEnd' = "short"
    /\ FinishMain(allItems')
    /\ UNCHANGED <<container, readyVars, offset, requests, outstanding, asked,
                   fetchCalls>>

\* A variant of JsonParsedMore that asks for the same offset again.
JsonParsedMore_SameOffset ==
    /\ pc = "parsing"
    /\ requests < MaxPages
    /\ \E data \in Bodies(offset) :
         /\ ~LastPage(ItemsOf(data))
         /\ allItems' = PushItems(allItems, ItemsOf(data))
         /\ got' = Append(got, PageRecord(offset, data))
    /\ offset' = offset
    /\ IssueRequest
    /\ UNCHANGED <<domVars, readyVars, fetchCalls, fetchEnd, mainVars>>

\* resp.json() resolves with a full page: push, offset += LIMIT, next fetch.
JsonParsedMore ==
    /\ pc = "parsing"
    /\ requests < MaxPages
    /\ \E data \in Bodies(offset) :
         /\ ~LastPage(ItemsOf(data))
         /\ allItems' = PushItems(allItems, ItemsOf(data))
         /\ got' = Append(got, PageRecord(offset, data))
    /\ offset' = offset + LIMIT
    /\ IssueRequest
    /\ UNCHANGED <<domVars, readyVars, fetchCalls, fetchEnd, mainVars>>

(***************************************************************************)
(* waitForTripsContainer and the start of main                             *)
(***************************************************************************)

\* A variant of Start that does not wait for the container.
Start_NoWait ==
    /\ pc = "init"
    /\ readyCalls' = readyCalls + 1
    /\ BeginFetch
    /\ UNCHANGED <<container, bodyObs, bodyPending>>

\* The script runs: the container exists (Promise.resolve(existing), main
\* goes on to fetchAllTrips) or the readiness observer is registered.
Start ==
    /\ pc = "init"
    /\ IF container
       THEN /\ readyCalls' = readyCalls + 1
            /\ BeginFetch
            /\ UNCHANGED <<container, bodyObs, bodyPending>>
       ELSE /\ bodyObs' = "observing"
            /\ pc' = "waiting"
            /\ UNCHANGED <<domVars, bodyPending, readyCalls, fetchVars, mainVars>>

\* A variant of ReadyCallback without obs.disconnect().
ReadyCallback_NoDisconnect ==
    /\ bodyObs = "observing"
    /\ bodyPending
    /\ bodyPending' = FALSE
    /\ IF container
       THEN /\ bodyObs' = bodyObs
            /\ readyCalls' = readyCalls + 1
            /\ IF readyCalls = 0
               THEN BeginFetch
               ELSE UNCHANGED <<pc, rows, hostChanged, fetchVars, mainVars>>
            /\ UNCHANGED container
       ELSE UNCHANGED <<pc, domVars, bodyObs, readyCalls, fetchVars, mainVars>>

\* The readiness observer's callback: on a match disconnect and resolve; the
\* promise takes the first value only, and main then calls fetchAllTrips.
ReadyCallback ==
    /\ bodyObs = "observing"
    /\ bodyPending
    /\ bodyPending' = FALSE
    /\ IF container
       THEN /\ bodyObs' = "disconnected"
            /\ readyCalls' = readyCalls + 1
            /\ IF readyCalls = 0
               THEN BeginFetch
               ELSE UNCHANGED <<pc, rows, hostChanged, fetchVars, mainVars>>
            /\ UNCHANGED container
       ELSE UNCHANGED <<pc, domVars, bodyObs, readyCalls, fetchVars, mainVars>>

(***************************************************************************)
(* The container observer                                                  *)
(***************************************************************************)

\* new MutationObserver(() => decorateRows(tripMap)): an exception of the
\* pass leaves the callback; the blocks the pass appended are mutations of
\* the container's subtree and queue the next notification.
ListCallback ==
    /\ listObs
    /\ listPending
    /\ LET r == decorateRows(rows, tripMap, allItems)
       IN /\ rows' = r.rows
          /\ lastPass' = PassRecord("observer", r)
          /\ listPending' = (r.attached > 0)
    /\ hostChanged' = FALSE
    /\ UNCHANGED <<pc, container, readyVars, fetchVars, tripMap, indexBuilt,
                   buildCalls, exportBtn, listObs, exported>>

(***************************************************************************)
(* The export button                                                       *)
(***************************************************************************)

\* JSON.stringify of one record: the values of its fields, in order.
StringifyItem(it) ==
    <<it.tripId, it.id, it.orderId, it.orderAmount, it.orderCurrency,
      it.creditAmount, it.creditCurrency, it.createdAt>>

\* JSON.stringify(allItems, null, 2): the elements in array order.
Stringify(items) == [i \in 1..Len(items) |-> StringifyItem(items[i])]

\* A variant of Export that empties the array it has serialized.
Export_Consume ==
    /\ exportBtn
    /\ exported' = [clicked |-> TRUE, text |-> Stringify(allItems)]
    /\ allItems' = <<>>
    /\ NotifyBody
    /\ UNCHANGED <<pc, domVars, bodyObs, readyCalls, offset, requests, outstanding,
                   got, asked, fetchCalls, fetchEnd, tripMap, indexBuilt, buildCalls,
                   exportBtn, listObs, listPending, lastPass>>

\* A click on the export button: allItems is serialized into a blob; the
\* download link is appended to document.body, clicked and removed.
Export ==
    /\ exportBtn
    /\ exported' = [clicked |-> TRUE, text |-> Stringify(allItems)]
    /\ NotifyBody
    /\ UNCHANGED <<pc, domVars, bodyObs, readyCalls, fetchVars, tripMap, indexBuilt,
                   buildCalls, exportBtn, listObs, listPending, lastPass>>

Next ==
    \/ HostAddContainer
    \/ HostMutateBody
    \/ HostAddRow
    \/ HostMutateList
    \/ Start
    \/ ReadyCallback
    \/ FetchRejected
    \/ RespNotOk
    \/ RespOk
    \/ JsonRejected
    \/ JsonParsedLast
    \/ JsonParsedMore
    \/ ListCallback
    \/ Export

Spec == Init /\ [][Next]_vars

\* The browser delivers queued mutation records: a pending notification
\* of the container observer is eventually handled.
FairSpec == Spec /\ WF_vars(ListCallback)

(***************************************************************************)
(* buildTripMap on its own: every sequence of up to MaxLen records         *)
(***************************************************************************)

KeyChoices == {NoStr, <<"a">>, <<"b">>}

IndexRecords ==
    {Rec(t, i, o, "null", "", "null", "", 0) :
        t \in KeyChoices, i \in {NoStr, <<"a">>}, o \in KeyChoices}

InitIndex ==
    /\ pc = "input"
    /\ allItems \in UNION {[1..n -> IndexRecords] : n \in 0..MaxLen}
    /\ container = FALSE
    /\ rows = <<>>
    /\ hostChanged = FALSE
    /\ bodyObs = "none"
    /\ bodyPending = FALSE
    /\ readyCalls = 0
    /\ offset = 0
    /\ requests = 0
    /\ outstanding = 0
    /\ got = <<>>
    /\ asked = <<>>
    /\ fetchCalls = 0
    /\ fetchEnd = "none"
    /\ tripMap = EmptyMap
    /\ indexBuilt = FALSE
    /\ buildCalls = 0
    /\ exportBtn = FALSE
    /\ listObs = FALSE
    /\ listPending = FALSE
    /\ lastPass = NoPass
    /\ exported = NoExport

\* const tripMap = buildTripMap(allItems)
BuildIndex ==
    /\ pc = "input"
    /\ tripMap' = buildTripMap(allItems)
    /\ indexBuilt' = TRUE
    /\ buildCalls' = buildCalls + 1
    /\ pc' = "built"
    /\ UNCHANGED <<domVars, readyVars, fetchVars, exportBtn, listObs, listPending,
                   lastPass, exported>>

SpecIndex == InitIndex /\ [][BuildIndex]_vars

(***************************************************************************)
(* The container observer on its own: the script is active on a list that  *)
(* was empty when main ran, after one page of 23 records; the host then    *)
(* adds up to MaxListRows rows.                                            *)
(***************************************************************************)

MaxListRows == MaxRows + 1

InitList ==
    /\ pc = "active"
    /\ container = TRUE
    /\ rows = <<>>
    /\ hostChanged = FALSE
    /\ bodyObs = "none"
    /\ bodyPending = FALSE
    /\ readyCalls = 1
    /\ offset = 0
    /\ allItems = ServerPage(0, 23)
    /\ requests = 1
    /\ outstanding = 0
    /\ got = <<[offset |-> 0, len |-> 23, missing |-> FALSE]>>
    /\ asked = <<0>>
    /\ fetchCalls = 1
    /\ fetchEnd = "short"
    /\ tripMap = buildTripMap(ServerPage(0, 23))
    /\ indexBuilt = TRUE
    /\ buildCalls = 1
    /\ exportBtn = TRUE
    /\ listObs = TRUE
    /\ listPending = FALSE
    /\ lastPass = [kind |-> "initial", again |-> FALSE, before |-> <<>>,
                   threw |-> FALSE, visited |-> 0, attached |-> 0]
    /\ exported = NoExport

HostAddRowList == HostAddRowUpTo(MaxListRows)

NextList ==
    \/ HostAddRowList
    \/ HostMutateList
    \/ ListCallback

SpecList == InitList /\ [][NextList]_vars

FairSpecList == SpecList /\ WF_vars(ListCallback)

(***************************************************************************)
(* Properties                                                              *)
(***************************************************************************)

\* The concatenation, in fetch order, of the pages the history names.
RECURSIVE ConcatPages(_)
ConcatPages(g) ==
    IF g = <<>> THEN <<>>
    ELSE ServerPage(Head(g).offset, Head(g).len) \o ConcatPages(Tail(g))

LoopLeft == pc \in {"active", "failed"}

\* C1: when the loop ends on a short page, that page is the first short one,
\* as many requests were issued as pages were parsed, none is pending, and
\* allItems is the concatenation of the parsed pages in fetch order.
C1_FetchAllConcat ==
    fetchEnd = "short" =>
        /\ LoopLeft
        /\ outstanding = 0
        /\ requests = Len(got)
        /\ got[Len(got)].len < LIMIT
        /\ \A i \in 1..(Len(got) - 1) : got[i].len >= LIMIT
        /\ \A i \in 1..Len(got) : got[i].offset = (i - 1) * LIMIT
        /\ allItems = ConcatPages(got)

\* Three pages were fetched, the third one short and not empty.
C1_Witness ==
    /\ fetchEnd = "short"
    /\ Len(got) = 3
    /\ got[3].len > 0
    /\ Len(allItems) > 2 * LIMIT

\* C2: after a transport failure or a non-success status on page k no
\* request follows, the records of pages 1..k-1 are returned normally, and
\* the system goes on to build the index from them, reconcile and offer
\* the export.
C2_PartialAbort ==
    fetchEnd \in {"transport", "http"} =>
        /\ outstanding = 0
        /\ requests = Len(got) + 1
        /\ allItems = ConcatPages(got)
        /\ indexBuilt
        /\ tripMap = buildTripMap(allItems)
        /\ lastPass.kind # "none"
        /\ exportBtn

\* The part of C2 that concerns fetchAllTrips and the index alone.
PartialAbortFetchPart ==
    fetchEnd \in {"transport", "http"} =>
        /\ outstanding = 0
        /\ requests = Len(got) + 1
        /\ allItems = ConcatPages(got)
        /\ indexBuilt
        /\ tripMap = buildTripMap(allItems)
        /\ lastPass.kind # "none"

\* C3: after buildTripMap every record with a non-empty tripId T is the
\* value the index holds under T.
C3_TripIdIndexed ==
    pc = "built" =>
        \A i \in 1..Len(allItems) :
            Truthy(allItems[i].tripId) =>
                /\ ~MapEmptyAt(tripMap, allItems[i].tripId)
                /\ allItems[tripMap[allItems[i].tripId]] = allItems[i]

\* C3 as amended: after buildTripMap every record with a non-empty tripId
\* T that no later record shares is the entry the index holds under T,
\* whatever records carry T as id or orderId.
C3_LastTripIdIndexed ==
    pc = "built" =>
        \A i \in 1..Len(allItems) :
            (/\ Truthy(allItems[i].tripId)
             /\ \A j \in (i + 1)..Len(allItems) : allItems[j].tripId # allItems[i].tripId)
            => /\ ~MapEmptyAt(tripMap, allItems[i].tripId)
               /\ tripMap[allItems[i].tripId] = i

\* A record is indexed under its tripId although an earlier record carries
\* that value as its orderId and a later one as its id.
C3_Witness ==
    /\ pc = "built"
    /\ Len(allItems) = 3
    /\ Truthy(allItems[2].tripId)
    /\ allItems[1].orderId = allItems[2].tripId
    /\ allItems[3].id = allItems[2].tripId
    /\ allItems[1].tripId # allItems[2].tripId
    /\ allItems[3].tripId # allItems[2].tripId
    /\ tripMap[allItems[2].tripId] = 2

\* The positions of the records that carry k as id or orderId.
SecondaryAt(k) ==
    {i \in 1..Len(allItems) : allItems[i].id = k \/ allItems[i].orderId = k}

\* C4: after buildTripMap, a key that no record carries as tripId and some
\* record carries as id or orderId maps to the first such record.
C4_FirstWinsSecondary ==
    pc = "built" =>
        \A k \in KeyChoices \ {NoStr} :
            (/\ \A i \in 1..Len(allItems) : allItems[i].tripId # k
             /\ SecondaryAt(k) # {})
            => /\ ~MapEmptyAt(tripMap, k)
               /\ tripMap[k] = Least(SecondaryAt(k))

\* Two different records without tripId share their orderId, and the index
\* holds the earlier one.
C4_Witness ==
    /\ pc = "built"
    /\ Len(allItems) >= 2
    /\ allItems[1].tripId = NoStr
    /\ allItems[2].tripId = NoStr
    /\ Truthy(allItems[1].orderId)
    /\ allItems[1].orderId = allItems[2].orderId
    /\ allItems[1] # allItems[2]
    /\ \A i \in 1..Len(allItems) : allItems[i].tripId # allItems[1].orderId
    /\ tripMap[allItems[1].orderId] = 1

\* C5: a reconciliation pass over a row set the host has not changed since
\* the pass before it changes no row and appends no block.
C5_Idempotent ==
    (lastPass.again /\ ~hostChanged) =>
        (rows = lastPass.before /\ lastPass.attached = 0)

\* The row has an identifier and the index has no entry for it.
RowMisses(row) == row.hasId /\ MapEmptyAt(tripMap, Trim(row.text))

\* C6: a row whose identifier has no index entry is never marked or
\* decorated; a pass that ends with an exception ends on a row that has an
\* entry, and a pass without exception has visited every row.
C6_MissUntouched ==
    /\ \A i \in 1..Len(rows) :
          RowMisses(rows[i]) => (~rows[i].enhanced /\ rows[i].extras = <<>>)
    /\ lastPass.kind # "none" =>
          IF lastPass.threw
          THEN ~RowMisses(lastPass.before[lastPass.visited])
          ELSE lastPass.visited = Len(lastPass.before)

\* A pass went over a row without entry and decorated the row after it.
C6_Witness ==
    /\ indexBuilt
    /\ Len(rows) = 2
    /\ Len(lastPass.before) = 2
    /\ RowMisses(rows[1])
    /\ ~lastPass.before[2].enhanced
    /\ rows[2].enhanced
    /\ rows[2].extras # <<>>

\* Every row whose identifier has an index entry carries the mark.
AllMatchedAnnotated ==
    \A i \in 1..Len(rows) :
        (rows[i].hasId /\ ~RowMisses(rows[i])) => rows[i].enhanced

\* C7: once the initial pass has run and the observer is registered, a pass
\* follows every addition of rows, every row whose identifier is in the
\* index is eventually annotated, and the observer stays registered.
C7_ReReconcile ==
    /\ (listObs ~> AllMatchedAnnotated)
    /\ ((listObs /\ hostChanged) ~> ~hostChanged)
    /\ [][listObs => listObs']_vars

\* The parts of C7 on the pass that follows an addition and on the
\* observer's registration.
PassFollowsAddition ==
    /\ ((listObs /\ hostChanged) ~> ~hostChanged)
    /\ [][listObs => listObs']_vars

C8_State ==
    /\ indexBuilt =>
          /\ fetchEnd # "none"
          /\ LoopLeft
          /\ outstanding = 0
          /\ tripMap = buildTripMap(allItems)
    /\ lastPass.kind # "none" => indexBuilt

C8_Step ==
    indexBuilt => (requests' = requests /\ allItems' = allItems /\ tripMap' = tripMap)

\* C8: the index is built only when the fetch loop has been left and no
\* request is pending, no request is issued afterwards, and a
\* reconciliation pass runs only with the index built from all the items.
C8_Ordering == []C8_State /\ [][C8_Step]_vars

\* A mutation-driven pass has run after a fetch of three pages.
C8_Witness ==
    /\ lastPass.kind = "observer"
    /\ indexBuilt
    /\ requests = 3

\* C9: at most one request is outstanding; while the request at an offset
\* is outstanding, every earlier page has been received, parsed and
\* appended; while a body is parsed no request is outstanding.
C9_Sequential ==
    /\ outstanding <= 1
    /\ outstanding = 1 =>
          /\ pc = "fetching"
          /\ offset = (requests - 1) * LIMIT
          /\ Len(got) = requests - 1
          /\ allItems = ConcatPages(got)
    /\ pc = "parsing" => outstanding = 0

\* The third request is outstanding.
C9_Witness ==
    /\ outstanding = 1
    /\ requests = 3
    /\ Len(allItems) >= 2 * LIMIT

C10_State ==
    /\ readyCalls <= 1
    /\ readyCalls = 1 => (bodyObs # "observing" /\ ~bodyPending)
    /\ (bodyObs = "observing" /\ container) => bodyPending

C10_Step ==
    /\ (pc = "init" /\ pc' # "init" /\ container) =>
          (bodyObs' = "none" /\ readyCalls' = 1)
    /\ (bodyObs = "observing" /\ bodyPending /\ ~bodyPending' /\ container) =>
          (bodyObs' = "disconnected" /\ readyCalls' = 1)
    /\ (bodyObs = "disconnected") => (bodyObs' = "disconnected" /\ readyCalls' = readyCalls)

\* C10: the readiness promise is given a value at most once; with the
\* container present at the call no observer is registered; otherwise the
\* first notification at which the container exists resolves the promise
\* and disconnects the observer, after which no callback runs.
C10_OneShot == []C10_State /\ [][C10_Step]_vars

\* The observer resolved the promise, and the document changed afterwards.
C10_Witness ==
    /\ bodyObs = "disconnected"
    /\ readyCalls = 1
    /\ rows # <<>>

\* The position of the first page that is short, failed or not successful:
\* the first short page among the parsed ones, or else the page after them.
FirstStop ==
    LET short == {i \in 1..Len(got) : got[i].len < LIMIT}
    IN IF short # {} THEN Least(short) ELSE Len(got) + 1

\* C11: the i-th request carries offset (i-1)*LIMIT; when the loop has been
\* left, the number of requests issued is the position of the first page
\* that is short, failed or not successful; successful pages of 50, 50 and
\* 23 items give three requests at offsets 0, 50, 100 and 123 records.
C11_RequestOffsets ==
    /\ Len(asked) = requests
    /\ \A i \in 1..Len(asked) : asked[i] = (i - 1) * LIMIT
    /\ LoopLeft => requests = FirstStop
    /\ (Len(got) = 3 /\ got[1].len = 50 /\ got[2].len = 50 /\ got[3].len = 23) =>
          /\ LoopLeft
          /\ asked = <<0, 50, 100>>
          /\ Len(allItems) = 123

\* Pages of 50, 50 and 23 items were fetched.
C11_Witness ==
    /\ Len(got) = 3
    /\ got[1].len = 50
    /\ got[2].len = 50
    /\ got[3].len = 23
    /\ requests = 3
    /\ Len(allItems) = 123

C12_State ==
    exported.clicked =>
        /\ exportBtn
        /\ indexBuilt
        /\ fetchEnd # "none"
        /\ exported.text = Stringify(allItems)

C12_Step == indexBuilt => allItems' = allItems

\* C12: from the step in which fetchAllTrips returns and the index is built,
\* allItems is never changed, whatever passes and exports follow, and the
\* text of every export is the serialization of that sequence, in order.
C12_SnapshotFrozen == []C12_State /\ [][C12_Step]_vars

\* An export came after a mutation-driven pass that decorated a row, with
\* more than one page fetched.
C12_Witness ==
    /\ exported.clicked
    /\ lastPass.kind = "observer"
    /\ \E i \in 1..Len(rows) : rows[i].extras # <<>>
    /\ Len(allItems) > LIMIT
    /\ exported.text = Stringify(allItems)

\* Every page parsed so far carried LIMIT items or more.
AllPagesFull == \A i \in 1..Len(got) : got[i].len >= LIMIT

\* No fetch was rejected, no status was not ok and no body failed to parse.
NoResponseFailed == fetchEnd \notin {"transport", "http", "parse"}

\* C13: as long as every response is successful and carries LIMIT items or
\* more, the loop has not been left: after k such pages request k+1 has
\* been issued, and the index, the passes, the export button and the
\* container observer have not been reached.
C13_NoIterationCap ==
    (requests > 0 /\ AllPagesFull /\ NoResponseFailed) =>
        /\ ~LoopLeft
        /\ pc \in {"fetching", "parsing"}
        /\ requests = Len(got) + 1
        /\ asked[requests] = Len(got) * LIMIT
        /\ ~indexBuilt
        /\ buildCalls = 0
        /\ lastPass.kind = "none"
        /\ ~exportBtn
        /\ ~listObs

\* Two full pages, the first with more than LIMIT items, were parsed and
\* the third request is under way.
C13_Witness ==
    /\ Len(got) = 2
    /\ AllPagesFull
    /\ got[1].len > LIMIT
    /\ got[2].len = LIMIT
    /\ NoResponseFailed
    /\ requests = 3
    /\ pc = "fetching"

\* C14: when the body of a successful response does not parse, the records
\* of the earlier pages are kept and the index is built, the visible rows
\* are reconciled, the export is offered and the container is observed.
C14_ParseContained ==
    fetchEnd = "parse" =>
        /\ allItems = ConcatPages(got)
        /\ indexBuilt
        /\ lastPass.kind # "none"
        /\ exportBtn
        /\ listObs

\* The positions of the records that carry k as tripId.
TripIdAt(k) == {i \in 1..Len(allItems) : allItems[i].tripId = k}

Greatest(S) == CHOOSE x \in S : \A y \in S : y <= x

\* C15: after buildTripMap, every value that is some record's tripId maps
\* to the last record that carries it as tripId, whatever records carry it
\* as tripId, id or orderId before or after.
C15_LastTripIdWins ==
    pc = "built" =>
        \A k \in KeyChoices \ {NoStr} :
            TripIdAt(k) # {} =>
                /\ ~MapEmptyAt(tripMap, k)
                /\ tripMap[k] = Greatest(TripIdAt(k))

\* Two different records share their tripId, a later record carries that
\* value as its id and its orderId, and the index holds the second record.
C15_Witness ==
    /\ pc = "built"
    /\ Len(allItems) = 3
    /\ Truthy(allItems[1].tripId)
    /\ allItems[2].tripId = allItems[1].tripId
    /\ allItems[2] # allItems[1]
    /\ allItems[3].tripId # allItems[1].tripId
    /\ allItems[3].id = allItems[1].tripId
    /\ allItems[3].orderId = allItems[1].tripId
    /\ tripMap[allItems[1].tripId] = 2

\* C16: no request is issued and nothing is decorated while the container
\* does not exist; fetchAllTrips and buildTripMap are each called at most
\* once, the latter only after the former; once mutation-driven passes run,
\* the requests are those of the one fetch loop and the index is the one
\* built from its result.
C16_SingleCycle ==
    /\ fetchCalls <= 1
    /\ buildCalls <= 1
    /\ ~container =>
          /\ requests = 0
          /\ fetchCalls = 0
          /\ buildCalls = 0
          /\ lastPass.kind = "none"
          /\ \A i \in 1..Len(rows) : ~rows[i].enhanced /\ rows[i].extras = <<>>
    /\ requests > 0 => (readyCalls = 1 /\ fetchCalls = 1)
    /\ buildCalls = 1 => (fetchCalls = 1 /\ LoopLeft /\ indexBuilt)
    /\ indexBuilt => buildCalls = 1
    /\ lastPass.kind # "none" => buildCalls = 1
    /\ lastPass.kind = "observer" =>
          /\ requests = FirstStop
          /\ Len(asked) = requests
          /\ outstanding = 0
          /\ tripMap = buildTripMap(allItems)

\* The script waited for the container, fetched three pages, and a
\* mutation-driven pass decorated a row.
C16_Witness ==
    /\ bodyObs = "disconnected"
    /\ requests = 3
    /\ fetchCalls = 1
    /\ buildCalls = 1
    /\ lastPass.kind = "observer"
    /\ lastPass.attached > 0

\* C17: a parsed body without items field is the last page of the loop and
\* counts no item: the loop is left on it as on a short page, no request
\* follows, and allItems holds exactly the records of the pages before it.
C17_MissingItemsEmpty ==
    \A i \in 1..Len(got) :
        got[i].missing =>
            /\ got[i].len = 0
            /\ i = Len(got)
            /\ fetchEnd = "short"
            /\ LoopLeft
            /\ requests = i
            /\ outstanding = 0
            /\ allItems = ConcatPages(SubSeq(got, 1, i - 1))

\* The third body had no items field, after two full pages.
C17_Witness ==
    /\ Len(got) = 3
    /\ got[3].missing
    /\ fetchEnd = "short"
    /\ Len(allItems) >= 2 * LIMIT

\* The row carries exactly one block, built from the index entry of its
\* identifier.
OneBlockOfEntry(row) ==
    /\ Len(row.extras) = 1
    /\ row.hasId
    /\ ~MapEmptyAt(tripMap, Trim(row.text))
    /\ row.extras[1].info = tripMap[Trim(row.text)]
    /\ row.extras[1].orderAmt =
          formatMoney(allItems[row.extras[1].info].orderAmount,
                      allItems[row.extras[1].info].orderCurrency).text
    /\ row.extras[1].creditAmt =
          formatMoney(allItems[row.extras[1].info].creditAmount,
                      allItems[row.extras[1].info].creditCurrency).text

\* C18: every row carries at most one block, and it carries the mark if
\* and only if it carries exactly one block built from the index entry of
\* its identifier.
C18_MarkConsistent ==
    \A i \in 1..Len(rows) :
        /\ Len(rows[i].extras) <= 1
        /\ rows[i].enhanced <=> OneBlockOfEntry(rows[i])

\* The part of C18 that does not depend on the decoration succeeding: a
\* row carries no block or exactly one, and a row with a block carries the
\* mark and the block is built from the index entry of its identifier.
BlockImpliesMark ==
    \A i \in 1..Len(rows) :
        /\ Len(rows[i].extras) <= 1
        /\ rows[i].extras # <<>> => (rows[i].enhanced /\ OneBlockOfEntry(rows[i]))

\* The host changes the container's subtree.
HostListChange == HostAddRowList \/ HostMutateList

\* Once the host stops changing the list, a state without pending
\* notification is reached and kept.
QuiescesWhenHostStops ==
    ([]<><<HostListChange>>_vars) \/ (<>[](~listPending))

\* A pass that appended a block queues a notification, a pass that
\* appended none queues none.
PendingIffAttached == ListCallback => (listPending' <=> lastPass'.attached > 0)

\* The pass that follows a pass which appended blocks, with no row added
\* in between, appends no block.
FollowUpIdle ==
    (ListCallback /\ ~hostChanged /\ lastPass.kind = "observer" /\ lastPass.attached > 0)
        => lastPass'.attached = 0

\* C19: a pass that appends a block schedules another pass; once the host
\* stops changing the list the notifications cease after finitely many
\* passes, the pass scheduled by a decorating pass appending nothing.
C19_SelfTriggerQuiesces ==
    /\ QuiescesWhenHostStops
    /\ [][PendingIffAttached]_vars
    /\ [][FollowUpIdle]_vars

\* The part of C19 that concerns the end of the feedback loop alone.
FeedbackLoopEnds == QuiescesWhenHostStops /\ [][PendingIffAttached]_vars

\* The non-empty identifier values of one record, and of all records.
KeysOfRecord(it) == {it.tripId, it.id, it.orderId} \ {NoStr}

KeysOfItems == UNION {KeysOfRecord(allItems[i]) : i \in 1..Len(allItems)}

\* C20: after buildTripMap, the keys of the index are exactly the non-empty
\* tripId, id and orderId values of the records, and every key maps to a
\* record of the sequence that carries it as tripId, id or orderId.
C20_IndexSound ==
    pc = "built" =>
        /\ DOMAIN tripMap = KeysOfItems
        /\ \A k \in DOMAIN tripMap :
              /\ tripMap[k] \in 1..Len(allItems)
              /\ k \in KeysOfRecord(allItems[tripMap[k]])

\* The index of three records, one of them without any identifier, has two
\* keys that map to different records.
C20_Witness ==
    /\ pc = "built"
    /\ Len(allItems) = 3
    /\ \E i \in 1..3 : KeysOfRecord(allItems[i]) = {}
    /\ Cardinality(DOMAIN tripMap) = 2
    /\ \E k1, k2 \in DOMAIN tripMap : tripMap[k1] # tripMap[k2]

====
